---- MODULE Spec2Model ----
(***************************************************************************)
(* Model of app.py, the Streamlit "Chromosome Karyotype Analyzer".         *)
(*                                                                         *)
(* Two specifications are given.                                           *)
(*   Spec      the Streamlit session: script runs of main(), the session   *)
(*             state, the dict objects the session refers to.              *)
(*   SpecPure  the pure functions generate_interpretation, generate_report *)
(*             and json.dumps applied to every result of a bounded domain. *)
(*                                                                         *)
(* Representation.                                                         *)
(*   - Python str is a TLA+ string; f-strings and " ".join are \o.         *)
(*   - A chromosome identifier is the string of its digits ("21") or "X",  *)
(*     "Y"; the Python int 21 and the model's "21" format to the same      *)
(*     text, and chr == 21 is modelled as chr = "21".                      *)
(*   - confidence is a float in the code; the model keeps it in hundredths *)
(*     (8734 is 87.34).  The sample values have no tie at the first        *)
(*     decimal, so rounding to nearest is what '.1f' does on them.         *)
(*   - A dict is a function from its keys; a dict object lives in heap at  *)
(*     a handle, and variables hold handles (Python reference semantics).  *)
(***************************************************************************)
EXTENDS Integers, Sequences, FiniteSets, TLC

VARIABLES
    analysis_result,  \* st.session_state.analysis_result: "None" or a handle
    uploaded_image,   \* st.session_state.uploaded_image: "None" or an image
    heap,             \* the live dict objects, by handle
    uploaded_file,    \* the file_uploader widget's file: "None" or a file name
    clicked,          \* the button whose click started the current script run
    offered,          \* the buttons the last finished run rendered
    pc,               \* position of the script run
    image,            \* main's local: what display_upload_section returned
    result,           \* display_analysis_section's local: a handle
    response,         \* analyze_with_api's upstream outcome in this run
    raised,           \* the exception that ended the run, or "none"
    page,             \* what the run rendered: results section, downloads
    fn_arg,           \* SpecPure: the argument dict
    fn_ret            \* SpecPure: what the functions returned for fn_arg

vars == <<analysis_result, uploaded_image, heap, uploaded_file, clicked, offered,
          pc, image, result, response, raised, page, fn_arg, fn_ret>>

sessionVars == <<analysis_result, uploaded_image, heap, uploaded_file, clicked,
                 offered, pc, image, result, response, raised, page>>

pureVars == <<fn_arg, fn_ret>>

(***************************************************************************)
(* Bounds                                                                  *)
(***************************************************************************)
\* longest abnormalities list of the SpecPure domain
MaxEvents == 2

(***************************************************************************)
(* String helpers                                                          *)
(***************************************************************************)
RECURSIVE Join(_, _)
\* sep.join(parts)
Join(parts, sep) ==
    IF parts = <<>> THEN ""
    ELSE IF Len(parts) = 1 THEN Head(parts)
    ELSE Head(parts) \o sep \o Join(Tail(parts), sep)

\* t in s, for Python strings
Contains(s, t) ==
    \E i \in 1..(Len(s) - Len(t) + 1) : SubSeq(s, i, i + Len(t) - 1) = t

\* f"{confidence:.1f}" on a value kept in hundredths
Format1f(confidence) ==
    LET tenths == (confidence + 5) \div 10
    IN  ToString(tenths \div 10) \o "." \o ToString(tenths % 10)

\* repr of the float, as json.dumps writes it, on a value kept in hundredths
FloatRepr(confidence) ==
    LET whole == confidence \div 100
        frac  == confidence % 100
    IN  ToString(whole) \o "." \o
        (IF frac % 10 = 0 THEN ToString(frac \div 10)
         ELSE ToString(frac \div 10) \o ToString(frac % 10))

(***************************************************************************)
(* KaryotypeAnalyzer.mock_analysis                                         *)
(***************************************************************************)
TechnicalNotes == "Analysis performed using EXAONE-Path-2.0 model"

\* random.choice([46, 47, 45])
CountChoices == {46, 47, 45}
\* random.choice(["XX", "XY"])
SexChoices == {"XX", "XY"}
\* random.choice([21, 18, 13])
TrisomyChoices == {"21", "18", "13"}
\* samples of random.uniform(80, 95), in hundredths
ConfidenceSamples == {8000, 8734, 9500}
\* samples of datetime.now().isoformat()
ClockSamples == {"2024-05-01T10:00:00.000001", "2024-05-01T10:07:30.250000"}

\* the dict mock_analysis returns when its random draws are the arguments;
\* structural is the outcome of random.random() < 0.1
mock_analysis(chromosome_count, sex_chromosomes, trisomy, structural, confidence, now) ==
    LET numerical ==
            IF chromosome_count = 47
            THEN <<[type |-> "trisomy", chromosome |-> trisomy,
                    description |-> "Trisomy " \o trisomy \o " detected"]>>
            ELSE IF chromosome_count = 45 /\ sex_chromosomes = "XX"
            THEN <<[type |-> "monosomy", chromosome |-> "X",
                    description |-> "Turner syndrome (Monosomy X)"]>>
            ELSE <<>>
        notation0 ==
            IF chromosome_count = 47
            THEN "47," \o sex_chromosomes \o ",+" \o trisomy
            ELSE IF chromosome_count = 45
            THEN (IF sex_chromosomes = "XX" THEN "45,X"
                  ELSE "45," \o sex_chromosomes \o ",-Y")
            ELSE "46," \o sex_chromosomes
        add == structural /\ chromosome_count = 46
    IN  [notation |-> IF add THEN notation0 \o ",t(9;22)(q34;q11)" ELSE notation0,
         chromosome_count |-> chromosome_count,
         sex_chromosomes |-> sex_chromosomes,
         abnormalities |->
             IF add
             THEN Append(numerical,
                         [type |-> "translocation",
                          description |-> "Balanced translocation t(9;22)(q34;q11)"])
             ELSE numerical,
         confidence |-> confidence,
         analysis_time |-> now,
         technical_notes |-> TechnicalNotes]

\* every dict mock_analysis can return
MockResults ==
    {mock_analysis(c, s, t, b, f, n) :
        c \in CountChoices, s \in SexChoices, t \in TrisomyChoices,
        b \in BOOLEAN, f \in ConfidenceSamples, n \in ClockSamples}

(***************************************************************************)
(* KaryotypeAnalyzer.generate_interpretation                               *)
(***************************************************************************)
NormalSentence ==
    "Normal male/female karyotype with no apparent numerical or structural abnormalities."

\* what one pass of the for loop appends to interpretation: a list of 0 or 1
\* sentences
SentencesFor(abnormality) ==
    IF abnormality.type = "trisomy"
    THEN (IF abnormality.chromosome = "21"
          THEN <<"Trisomy 21 (Down syndrome) detected.">>
          ELSE IF abnormality.chromosome = "18"
          THEN <<"Trisomy 18 (Edwards syndrome) detected.">>
          ELSE IF abnormality.chromosome = "13"
          THEN <<"Trisomy 13 (Patau syndrome) detected.">>
          ELSE <<>>)
    ELSE IF abnormality.type = "monosomy"
    THEN <<"Monosomy X (Turner syndrome) detected.">>
    ELSE IF abnormality.type = "translocation"
    THEN <<"Structural rearrangement detected: " \o abnormality.description>>
    ELSE <<>>

RECURSIVE LoopSentences(_)
\* the for loop over result["abnormalities"]
LoopSentences(abnormalities) ==
    IF abnormalities = <<>> THEN <<>>
    ELSE SentencesFor(Head(abnormalities)) \o LoopSentences(Tail(abnormalities))

\* InterpretationList with the test on abnormalities left out of the first
\* condition
InterpretationListCountOnly(r) ==
    IF r.chromosome_count = 46
    THEN <<NormalSentence>>
    ELSE <<"Numerical abnormality detected: " \o ToString(r.chromosome_count)
           \o " chromosomes.">>
         \o LoopSentences(r.abnormalities)

\* the list interpretation as it stands before the join
InterpretationList(r) ==
    IF r.chromosome_count = 46 /\ r.abnormalities = <<>>
    THEN <<NormalSentence>>
    ELSE (IF r.chromosome_count # 46
          THEN <<"Numerical abnormality detected: " \o ToString(r.chromosome_count)
                 \o " chromosomes.">>
          ELSE <<>>)
         \o LoopSentences(r.abnormalities)

generate_interpretation(r) == Join(InterpretationList(r), " ")

(***************************************************************************)
(* get_confidence_class, display_results                                   *)
(***************************************************************************)
get_confidence_class(confidence) ==
    IF confidence >= 9000 THEN "confidence-high"
    ELSE IF confidence >= 7500 THEN "confidence-medium"
    ELSE "confidence-low"

\* the keys display_results and generate_report subscript
RenderKeys ==
    {"notation", "chromosome_count", "sex_chromosomes", "confidence",
     "abnormalities", "interpretation", "technical_notes", "analysis_time"}

\* whether every subscript of a renderer finds its key
Renderable(r) ==
    /\ RenderKeys \subseteq DOMAIN r
    /\ \A i \in 1..Len(r.abnormalities) : "description" \in DOMAIN r.abnormalities[i]

\* what display_results writes to the page, in order; KeyError when a subscript
\* finds no key
display_results(r) ==
    IF ~Renderable(r) THEN [raised |-> "KeyError", written |-> <<>>]
    ELSE [raised |-> "none",
          written |->
              <<r.notation, ToString(r.chromosome_count), r.sex_chromosomes,
                get_confidence_class(r.confidence), Format1f(r.confidence) \o "%">>
              \o (IF r.abnormalities # <<>>
                  THEN [i \in 1..Len(r.abnormalities) |->
                           ToString(i) \o ". **" \o r.abnormalities[i].description \o "**"]
                  ELSE <<"No chromosomal abnormalities detected.">>)
              \o <<r.interpretation, r.technical_notes,
                   "Analysis performed at: " \o r.analysis_time>>]

(***************************************************************************)
(* generate_report: the text document, line by line                        *)
(***************************************************************************)
\* the SUMMARY block with the sex chromosomes written on the count's line too
ReportSummarySexTwice(r) ==
    <<"Chromosome Count: " \o r.sex_chromosomes,
      "Sex Chromosomes: " \o r.sex_chromosomes,
      "Confidence Score: " \o Format1f(r.confidence) \o "%">>

\* the three lines of the SUMMARY block
ReportSummary(r) ==
    <<"Chromosome Count: " \o ToString(r.chromosome_count),
      "Sex Chromosomes: " \o r.sex_chromosomes,
      "Confidence Score: " \o Format1f(r.confidence) \o "%">>

generate_report(r) ==
    IF ~Renderable(r) THEN [raised |-> "KeyError", lines |-> <<>>]
    ELSE [raised |-> "none",
          lines |->
              <<"",
                "CHROMOSOME KARYOTYPE ANALYSIS REPORT",
                "====================================",
                "",
                "Analysis Date: " \o r.analysis_time,
                "",
                "ISCN 2020 Notation: " \o r.notation,
                "",
                "SUMMARY",
                "-------">>
              \o ReportSummary(r)
              \o <<"",
                   "DETECTED ABNORMALITIES",
                   "---------------------">>
              \o (IF r.abnormalities # <<>>
                  THEN [i \in 1..Len(r.abnormalities) |->
                           ToString(i) \o ". " \o r.abnormalities[i].description]
                  ELSE <<"No chromosomal abnormalities detected.">>)
              \o <<"",
                   "",
                   "CLINICAL INTERPRETATION",
                   "----------------------",
                   r.interpretation,
                   "",
                   "TECHNICAL NOTES",
                   "--------------",
                   r.technical_notes,
                   "",
                   "DISCLAIMER",
                   "----------",
                   "This analysis is for educational and research purposes only. ",
                   "Results must be validated by qualified cytogenetics professionals.",
                   "Do not use for clinical diagnosis or medical decision-making.",
                   "",
                   "Generated by Chromosome Karyotype Analyzer",
                   "Powered by EXAONE-Path-2.0 AI Model",
                   "">>]

(***************************************************************************)
(* json.dumps(result, indent=2): the structured export, line by line       *)
(***************************************************************************)
\* a chromosome the code holds as an int is written bare, a str is quoted
JsonChromosome(c) == IF c \in {"X", "Y"} THEN "\"" \o c \o "\"" ELSE c

\* the "key": value members of one abnormality dict, in insertion order
JsonEventMembers(a) ==
    (IF "type" \in DOMAIN a THEN <<"\"type\": \"" \o a.type \o "\"">> ELSE <<>>)
    \o (IF "chromosome" \in DOMAIN a
        THEN <<"\"chromosome\": " \o JsonChromosome(a.chromosome)>> ELSE <<>>)
    \o (IF "description" \in DOMAIN a
        THEN <<"\"description\": \"" \o a.description \o "\"">> ELSE <<>>)

\* members, one per line at the given indent, a comma after all but the last
JsonMemberLines(members, indent) ==
    [i \in 1..Len(members) |->
        indent \o members[i] \o (IF i < Len(members) THEN "," ELSE "")]

RECURSIVE JsonEventLines(_, _)
\* the lines of the abnormalities array's elements, from the i-th on
JsonEventLines(abnormalities, i) ==
    IF i > Len(abnormalities) THEN <<>>
    ELSE <<"    {">>
         \o JsonMemberLines(JsonEventMembers(abnormalities[i]), "      ")
         \o <<IF i < Len(abnormalities) THEN "    }," ELSE "    }">>
         \o JsonEventLines(abnormalities, i + 1)

\* the top-level members before and after "abnormalities", in the insertion
\* order of the dict literal of mock_analysis, interpretation last
JsonHeadMembers(r) ==
    <<"\"notation\": \"" \o r.notation \o "\"",
      "\"chromosome_count\": " \o ToString(r.chromosome_count),
      "\"sex_chromosomes\": \"" \o r.sex_chromosomes \o "\"">>

JsonTailMembers(r) ==
    <<"\"confidence\": " \o FloatRepr(r.confidence),
      "\"analysis_time\": \"" \o r.analysis_time \o "\"",
      "\"technical_notes\": \"" \o r.technical_notes \o "\"">>
    \o (IF "interpretation" \in DOMAIN r
        THEN <<"\"interpretation\": \"" \o r.interpretation \o "\"">> ELSE <<>>)

json_dumps(r) ==
    <<"{">>
    \o [i \in 1..3 |-> "  " \o JsonHeadMembers(r)[i] \o ","]
    \o (IF r.abnormalities = <<>> THEN <<"  \"abnormalities\": [],">>
        ELSE <<"  \"abnormalities\": [">>
             \o JsonEventLines(r.abnormalities, 1)
             \o <<"  ],">>)
    \o JsonMemberLines(JsonTailMembers(r), "  ")
    \o <<"}">>

(***************************************************************************)
(* The notation derivation of the specification, section 4.1               *)
(***************************************************************************)
\* the token one event contributes
DerivedToken(a) ==
    IF a.type = "trisomy" THEN ",+" \o a.chromosome
    ELSE IF a.type = "monosomy"
    THEN (IF a.chromosome = "X" THEN "" ELSE ",-" \o a.chromosome)
    ELSE "," \o a.description

RECURSIVE DerivedTokens(_)
DerivedTokens(abnormalities) ==
    IF abnormalities = <<>> THEN ""
    ELSE DerivedToken(Head(abnormalities)) \o DerivedTokens(Tail(abnormalities))

\* "<count>,<sex>", replaced by "45,X" when an event is a monosomy of X
DerivedPrefix(chromosome_count, sex_chromosomes, abnormalities) ==
    IF \E i \in 1..Len(abnormalities) :
           abnormalities[i].type = "monosomy" /\ abnormalities[i].chromosome = "X"
    THEN "45,X"
    ELSE ToString(chromosome_count) \o "," \o sex_chromosomes

DerivedNotation(chromosome_count, sex_chromosomes, abnormalities) ==
    DerivedPrefix(chromosome_count, sex_chromosomes, abnormalities)
    \o DerivedTokens(abnormalities)

(***************************************************************************)
(* SpecPure: the pure functions on a bounded domain of results             *)
(***************************************************************************)
\* the valid chromosome identifiers the domain samples
TrisomySamples == {"21", "18", "13", "5"}
MonosomySamples == {"X", "Y", "7"}
TranslocationSamples == {"t(9;22)(q34;q11)", "Balanced translocation t(9;22)(q34;q11)"}

PureEvents ==
    {[type |-> "trisomy", chromosome |-> c,
      description |-> "Trisomy " \o c \o " detected"] : c \in TrisomySamples}
    \cup {[type |-> "monosomy", chromosome |-> c,
           description |-> IF c = "X" THEN "Turner syndrome (Monosomy X)"
                           ELSE "Monosomy " \o c \o " detected"] : c \in MonosomySamples}
    \cup {[type |-> "translocation", description |-> d] : d \in TranslocationSamples}

\* the (kind, chromosome) pair the data model forbids to repeat
EventKey(a) ==
    <<a.type, IF "chromosome" \in DOMAIN a THEN a.chromosome ELSE "">>

\* event lists of at most MaxEvents events, no (kind, chromosome) pair twice
PureEventLists ==
    {l \in UNION {[1..n -> PureEvents] : n \in 0..MaxEvents} :
        \A i, j \in 1..Len(l) : i # j => EventKey(l[i]) # EventKey(l[j])}

\* the dicts SpecPure applies the functions to: the fields of a mock_analysis
\* dict, the abnormalities any valid list, the notation derived from them
PureResults ==
    {[notation |-> DerivedNotation(c, s, l),
      chromosome_count |-> c,
      sex_chromosomes |-> s,
      abnormalities |-> l,
      confidence |-> f,
      analysis_time |-> "2024-05-01T10:00:00.000001",
      technical_notes |-> TechnicalNotes] :
        c \in CountChoices, s \in SexChoices, l \in PureEventLists,
        f \in ConfidenceSamples}

NoReturn ==
    [stage |-> "entry", interpretation_list |-> <<>>, interpretation |-> "",
     text |-> <<>>, json |-> <<>>, raised |-> "none"]

\* the interpretation written under a key the dict already has
SetInterpretationWrongKey(d, s) == [d EXCEPT !.notation = s]

\* the interpretation computed and not attached
SetInterpretationNowhere(d, s) == d

\* result['interpretation'] = ...: the dict with the key set
SetInterpretation(d, s) ==
    [k \in DOMAIN d \cup {"interpretation"} |->
        IF k = "interpretation" THEN s ELSE d[k]]

\* generate_interpretation(fn_arg) returns
PureInterpret ==
    /\ fn_ret.stage = "entry"
    /\ fn_ret' = [fn_ret EXCEPT !.stage = "interpreted",
                                !.interpretation_list = InterpretationList(fn_arg),
                                !.interpretation = generate_interpretation(fn_arg)]
    /\ UNCHANGED <<fn_arg, sessionVars>>

\* generate_report on the result with its interpretation attached
PureReport ==
    /\ fn_ret.stage = "interpreted"
    /\ LET out == generate_report(SetInterpretation(fn_arg, fn_ret.interpretation))
       IN  fn_ret' = [fn_ret EXCEPT !.stage = "reported",
                                    !.text = out.lines,
                                    !.raised = out.raised]
    /\ UNCHANGED <<fn_arg, sessionVars>>

\* json.dumps on the result with its interpretation attached
PureDump ==
    /\ fn_ret.stage = "reported"
    /\ fn_ret' = [fn_ret EXCEPT !.stage = "dumped",
                     !.json = json_dumps(SetInterpretation(fn_arg, fn_ret.interpretation))]
    /\ UNCHANGED <<fn_arg, sessionVars>>

(***************************************************************************)
(* The upload widget and display_upload_section                            *)
(***************************************************************************)
\* 10 * 1024 * 1024, the limit display_upload_section compares with
MaxUploadBytes == 10 * 1024 * 1024

\* the files a user may put in the file_uploader
Files == {"small.png", "exact10mb.png", "over10mb.tiff", "corrupt.jpg", "cmyk.jpg"}

\* uploaded_file.size
FileSize(f) ==
    CASE f = "small.png"     -> 2048
      [] f = "exact10mb.png" -> MaxUploadBytes
      [] f = "over10mb.tiff" -> MaxUploadBytes + 1
      [] f = "corrupt.jpg"   -> 4096
      [] f = "cmyk.jpg"      -> 8192

\* whether Image.open(uploaded_file) returns an image
Opens(f) == f # "corrupt.jpg"

\* whether image.save(buffered, format="PNG") can write the image's mode
SavesAsPng(img) == img # "cmyk.jpg"

\* display_upload_section storing the image in the session before the size is
\* looked at
display_upload_section_store_first(file, session_image) ==
    IF file # "None"
    THEN IF ~Opens(file)
         THEN [ret |-> "None", uploaded_image |-> session_image,
               raised |-> "UnidentifiedImageError"]
         ELSE IF FileSize(file) > MaxUploadBytes
         THEN [ret |-> "None", uploaded_image |-> file, raised |-> "none"]
         ELSE [ret |-> file, uploaded_image |-> file, raised |-> "none"]
    ELSE [ret |-> "None", uploaded_image |-> session_image, raised |-> "none"]

\* display_upload_section with the widget holding file and the session holding
\* session_image: the value returned, the session's uploaded_image afterwards,
\* the exception raised; an image is named by the file it was opened from
display_upload_section(file, session_image) ==
    IF file # "None"
    THEN IF FileSize(file) > MaxUploadBytes
         THEN [ret |-> "None", uploaded_image |-> session_image, raised |-> "none"]
         ELSE IF ~Opens(file)
         THEN [ret |-> "None", uploaded_image |-> session_image,
               raised |-> "UnidentifiedImageError"]
         ELSE [ret |-> file, uploaded_image |-> file, raised |-> "none"]
    ELSE [ret |-> "None", uploaded_image |-> session_image, raised |-> "none"]

(***************************************************************************)
(* KaryotypeAnalyzer.analyze_with_api                                      *)
(***************************************************************************)
\* findings an upstream body may carry: valid ones and the invalid ones the
\* specification names (confidence 150 and -1, sex_chromosomes "ZZ", an
\* unknown abnormality kind)
Payloads ==
    {[confidence |-> 8500, sex_chromosomes |-> "XX", kind |-> "trisomy"],
     [confidence |-> 15000, sex_chromosomes |-> "XX", kind |-> "trisomy"],
     [confidence |-> -100, sex_chromosomes |-> "XY", kind |-> "monosomy"],
     [confidence |-> 8500, sex_chromosomes |-> "ZZ", kind |-> "trisomy"],
     [confidence |-> 8500, sex_chromosomes |-> "XY", kind |-> "inversion"]}

NoPayload == [confidence |-> 0, sex_chromosomes |-> "", kind |-> ""]

\* no upstream call made in this run
NoResponse == [outcome |-> "none", status_code |-> 0, payload |-> NoPayload]

\* the outcomes of requests.post and response.json(): a status with a JSON
\* body, a 200 whose body is not JSON, an exception of requests.post
Responses ==
    {[outcome |-> "json", status_code |-> c, payload |-> p] :
        c \in {200, 503}, p \in Payloads}
    \cup {[outcome |-> "not_json", status_code |-> 200, payload |-> NoPayload],
          [outcome |-> "timeout", status_code |-> 0, payload |-> NoPayload],
          [outcome |-> "connection_error", status_code |-> 0, payload |-> NoPayload]}

\* _parse_api_response copying the body's findings into the result unchecked
parse_api_response_copying(body, mock) ==
    [mock EXCEPT !.confidence = body.confidence,
                 !.sex_chromosomes = body.sex_chromosomes,
                 !.abnormalities =
                     <<[type |-> body.kind, chromosome |-> "21",
                        description |-> body.kind \o " detected"]>>]

\* _parse_api_response: the parsed body is not read
parse_api_response(body, mock) == mock

\* analyze_with_api with response.raise_for_status() in place of the else
\* branch, and an except clause for requests' timeout alone
analyze_with_api_no_fallback(img, resp, mock) ==
    IF ~SavesAsPng(img)
    THEN [raised |-> "OSError", called |-> FALSE, ret |-> mock]
    ELSE IF resp.outcome = "timeout"
    THEN [raised |-> "none", called |-> TRUE, ret |-> mock]
    ELSE IF resp.outcome = "connection_error"
    THEN [raised |-> "ConnectionError", called |-> TRUE, ret |-> mock]
    ELSE IF resp.status_code = 200 /\ resp.outcome = "json"
    THEN [raised |-> "none", called |-> TRUE, ret |-> mock]
    ELSE [raised |-> "HTTPError", called |-> TRUE, ret |-> mock]

\* analyze_with_api for an image, the upstream outcome resp and the dict the
\* call of mock_analysis on the path taken returns
analyze_with_api(img, resp, mock) ==
    IF ~SavesAsPng(img)
    THEN [raised |-> "OSError", called |-> FALSE, ret |-> mock]
    ELSE IF resp.outcome \in {"timeout", "connection_error"}
    THEN [raised |-> "none", called |-> TRUE, ret |-> mock]
    ELSE IF resp.status_code = 200
    THEN (IF resp.outcome = "not_json"
          THEN [raised |-> "none", called |-> TRUE, ret |-> mock]
          ELSE [raised |-> "none", called |-> TRUE,
                ret |-> parse_api_response(resp.payload, mock)])
    ELSE [raised |-> "none", called |-> TRUE, ret |-> mock]

(***************************************************************************)
(* The session: script runs of main()                                      *)
(***************************************************************************)
Handles == {"dict_a", "dict_b"}

NoHeap == [h \in {} |-> NoPayload]

NoPage == [results |-> <<>>, report |-> <<>>, json |-> <<>>]

\* a handle no variable refers to
FreshHandle == CHOOSE h \in Handles : h # analysis_result /\ h \notin DOMAIN heap

\* the argument SpecPure's variables rest at under Spec
RestArg ==
    mock_analysis(46, "XX", "21", FALSE, 8000, "2024-05-01T10:00:00.000001")

InitSession ==
    /\ analysis_result = "None"
    /\ uploaded_image = "None"
    /\ heap = NoHeap
    /\ uploaded_file = "None"
    /\ clicked = "none"
    /\ offered = {}
    /\ pc = "upload"
    /\ image = "None"
    /\ result = "None"
    /\ response = NoResponse
    /\ raised = "none"
    /\ page = NoPage

\* a widget event reruns the script from the top
StartRun(button) ==
    /\ pc = "idle"
    /\ pc' = "upload"
    /\ clicked' = button
    /\ offered' = {}
    /\ image' = "None"
    /\ result' = "None"
    /\ response' = NoResponse
    /\ raised' = "none"
    /\ page' = NoPage
    /\ UNCHANGED <<analysis_result, uploaded_image, heap, pureVars>>

\* the user puts a file in the file_uploader
UserUploads ==
    \E f \in Files :
        /\ uploaded_file' = f
        /\ StartRun("none")

\* the user removes the file from the file_uploader
UserRemovesFile ==
    /\ uploaded_file # "None"
    /\ uploaded_file' = "None"
    /\ StartRun("none")

\* any other widget event: the API key is typed, a download button is clicked
Rerun ==
    /\ UNCHANGED uploaded_file
    /\ StartRun("none")

\* "Start Analysis" is clicked
ClickStartAnalysis ==
    /\ "start" \in offered
    /\ UNCHANGED uploaded_file
    /\ StartRun("start")

\* "Start New Analysis" is clicked
ClickStartNew ==
    /\ "new" \in offered
    /\ UNCHANGED uploaded_file
    /\ StartRun("new")

\* main: image = display_upload_section()
UploadSection ==
    /\ pc = "upload"
    /\ LET out == display_upload_section(uploaded_file, uploaded_image)
       IN  /\ uploaded_image' = out.uploaded_image
           /\ image' = out.ret
           /\ raised' = out.raised
           /\ pc' = IF out.raised = "none" THEN "analysis" ELSE "idle"
    /\ UNCHANGED <<analysis_result, heap, uploaded_file, clicked, offered, result,
                   response, page, pureVars>>

\* main: the analysis section when no analysis starts: it is not shown
\* (image is None), or its button is shown and was not the one clicked
AnalysisSectionIdle ==
    /\ pc = "analysis"
    /\ image = "None" \/ clicked # "start"
    /\ offered' = IF image = "None" THEN offered ELSE offered \cup {"start"}
    /\ pc' = "results"
    /\ UNCHANGED <<analysis_result, uploaded_image, heap, uploaded_file, clicked,
                   image, result, response, raised, page, pureVars>>

\* display_analysis_section, the button clicked:
\* result = analyzer.analyze_with_api(image)
Analyze ==
    /\ pc = "analysis"
    /\ image # "None"
    /\ clicked = "start"
    /\ \E resp \in Responses, c \in CountChoices, s \in SexChoices,
          t \in TrisomyChoices, b \in BOOLEAN, f \in ConfidenceSamples,
          n \in ClockSamples :
          LET out == analyze_with_api(image, resp, mock_analysis(c, s, t, b, f, n))
          IN  IF out.raised # "none"
              THEN /\ raised' = out.raised
                   /\ pc' = "idle"
                   /\ response' = IF out.called THEN resp ELSE response
                   /\ UNCHANGED <<heap, result>>
              ELSE /\ result' = FreshHandle
                   /\ heap' = [h \in DOMAIN heap \cup {FreshHandle} |->
                                  IF h = FreshHandle THEN out.ret ELSE heap[h]]
                   /\ response' = resp
                   /\ pc' = "store"
                   /\ UNCHANGED raised
    /\ offered' = offered \cup {"start"}
    /\ UNCHANGED <<analysis_result, uploaded_image, uploaded_file, clicked, image,
                   page, pureVars>>

\* st.session_state.analysis_result = result; the dict the session referred to
\* before has no reference left
Store ==
    /\ pc = "store"
    /\ analysis_result' = result
    /\ heap' = [h \in {result} |-> heap[h]]
    /\ pc' = "interpret"
    /\ UNCHANGED <<uploaded_image, uploaded_file, clicked, offered, image, result,
                   response, raised, page, pureVars>>

\* result['interpretation'] = analyzer.generate_interpretation(result)
Interpret ==
    /\ pc = "interpret"
    /\ heap' = [heap EXCEPT ![result] =
                   SetInterpretation(heap[result], generate_interpretation(heap[result]))]
    /\ pc' = "results"
    /\ UNCHANGED <<analysis_result, uploaded_image, uploaded_file, clicked, offered,
                   image, result, response, raised, page, pureVars>>

\* main: st.session_state.analysis_result is None, nothing more is shown
ResultsSectionSkipped ==
    /\ pc = "results"
    /\ analysis_result = "None"
    /\ pc' = "idle"
    /\ UNCHANGED <<analysis_result, uploaded_image, heap, uploaded_file, clicked,
                   offered, image, result, response, raised, page, pureVars>>

\* main: display_results, display_report_section, the "Start New Analysis"
\* button; clicked, it clears the session and st.rerun() starts the next run
ResultsSection ==
    /\ pc = "results"
    /\ analysis_result # "None"
    /\ LET shown  == display_results(heap[analysis_result])
           report == generate_report(heap[analysis_result])
       IN  IF shown.raised # "none" \/ report.raised # "none"
           THEN /\ raised' = "KeyError"
                /\ page' = [page EXCEPT !.results = shown.written]
                /\ pc' = "idle"
                /\ UNCHANGED <<analysis_result, uploaded_image, heap, clicked, offered,
                               image, result, response>>
           ELSE IF clicked = "new"
           THEN /\ analysis_result' = "None"
                /\ uploaded_image' = "None"
                /\ heap' = NoHeap
                /\ page' = NoPage
                /\ offered' = {}
                /\ clicked' = "none"
                /\ image' = "None"
                /\ result' = "None"
                /\ response' = NoResponse
                /\ pc' = "upload"
                /\ UNCHANGED raised
           ELSE /\ page' = [results |-> shown.written, report |-> report.lines,
                            json |-> json_dumps(heap[analysis_result])]
                /\ offered' = offered \cup {"new"}
                /\ pc' = "idle"
                /\ UNCHANGED <<analysis_result, uploaded_image, heap, clicked, image,
                               result, response, raised>>
    /\ UNCHANGED <<uploaded_file, pureVars>>

Init ==
    /\ InitSession
    /\ fn_arg = RestArg
    /\ fn_ret = NoReturn

Next ==
    \/ UserUploads
    \/ UserRemovesFile
    \/ Rerun
    \/ ClickStartAnalysis
    \/ ClickStartNew
    \/ UploadSection
    \/ AnalysisSectionIdle
    \/ Analyze
    \/ Store
    \/ Interpret
    \/ ResultsSectionSkipped
    \/ ResultsSection

Spec == Init /\ [][Next]_vars

InitPure ==
    /\ InitSession
    /\ fn_arg \in PureResults
    /\ fn_ret = NoReturn

NextPure ==
    \/ PureInterpret
    \/ PureReport
    \/ PureDump

SpecPure == InitPure /\ [][NextPure]_vars

(***************************************************************************)
(* Claims                                                                  *)
(***************************************************************************)
\* the dict is one of the normal results: 46 chromosomes, no abnormality
IsNormal(r) == r.chromosome_count = 46 /\ r.abnormalities = <<>>

\* the number of events of a kind in a list
CountKind(abnormalities, kind) ==
    Cardinality({i \in 1..Len(abnormalities) : abnormalities[i].type = kind})

\* chromosome_count agrees with the events: 46, one more per trisomy, one less
\* per monosomy
CountAgrees(r) ==
    r.chromosome_count =
        46 + CountKind(r.abnormalities, "trisomy") - CountKind(r.abnormalities, "monosomy")

\* C1 (as claimed; Spec): every dict the findings source produced has the
\* notation that the section 4.1 derivation gives for its chromosome_count,
\* sex_chromosomes and abnormalities.
C1_NotationIsDerived ==
    \A h \in DOMAIN heap :
        heap[h].notation =
            DerivedNotation(heap[h].chromosome_count, heap[h].sex_chromosomes,
                            heap[h].abnormalities)

\* C2 (SpecPure): for 46 chromosomes and no abnormality generate_interpretation
\* returns exactly the normal-karyotype sentence; for every other result the
\* sentence is no part of what it returns.
C2_NormalSentenceIffNormal ==
    fn_ret.stage # "entry" =>
        IF IsNormal(fn_arg)
        THEN fn_ret.interpretation = NormalSentence
        ELSE ~Contains(fn_ret.interpretation, NormalSentence)

\* C2 witness: generate_interpretation has returned for a normal 46,XY result
C2_Witness ==
    /\ fn_ret.stage = "interpreted"
    /\ IsNormal(fn_arg)
    /\ fn_arg.sex_chromosomes = "XY"
    /\ fn_ret.interpretation = NormalSentence

\* the sentence the specification's mapping gives an event (section 4.2)
ReferenceSentence(a) ==
    IF a.type = "trisomy"
    THEN (IF a.chromosome = "21" THEN "Trisomy 21 (Down syndrome) detected."
          ELSE IF a.chromosome = "18" THEN "Trisomy 18 (Edwards syndrome) detected."
          ELSE IF a.chromosome = "13" THEN "Trisomy 13 (Patau syndrome) detected."
          ELSE "Trisomy " \o a.chromosome \o " detected.")
    ELSE IF a.type = "monosomy"
    THEN (IF a.chromosome = "X" THEN "Monosomy X (Turner syndrome) detected."
          ELSE "Monosomy " \o a.chromosome \o " detected.")
    ELSE "Structural rearrangement detected: " \o a.description

\* C3 (as claimed; SpecPure): for a result with one abnormality event, and a
\* chromosome_count that agrees with it, the last sentence
\* generate_interpretation collected is the reference sentence of that event.
C3_EventSentenceIsReference ==
    (fn_ret.stage # "entry" /\ Len(fn_arg.abnormalities) = 1 /\ CountAgrees(fn_arg)) =>
        /\ fn_ret.interpretation_list # <<>>
        /\ fn_ret.interpretation_list[Len(fn_ret.interpretation_list)]
               = ReferenceSentence(fn_arg.abnormalities[1])

\* C4 (as claimed; SpecPure): for a result that is not normal, with a
\* chromosome_count that agrees with its events, the sentences
\* are the numerical-abnormality sentence when the count is not 46, then one
\* sentence per abnormality event.
C4_OneSentencePerEvent ==
    (fn_ret.stage # "entry" /\ ~IsNormal(fn_arg) /\ CountAgrees(fn_arg)) =>
        LET lead == IF fn_arg.chromosome_count # 46 THEN 1 ELSE 0
        IN  /\ Len(fn_ret.interpretation_list) = lead + Len(fn_arg.abnormalities)
            /\ lead = 1 =>
                   fn_ret.interpretation_list[1] =
                       "Numerical abnormality detected: "
                       \o ToString(fn_arg.chromosome_count) \o " chromosomes."

\* the keys of the dict mock_analysis returns
FindingsKeys ==
    {"notation", "chromosome_count", "sex_chromosomes", "abnormalities",
     "confidence", "analysis_time", "technical_notes"}

\* confidence within [0, 100], in hundredths
ValidConfidence(c) == c >= 0 /\ c <= 100 * 100

ValidSex(s) == s \in {"XX", "XY"}

ValidKind(k) == k \in {"trisomy", "monosomy", "translocation"}

\* findings of an upstream body that validation would accept
ValidPayload(p) ==
    ValidConfidence(p.confidence) /\ ValidSex(p.sex_chromosomes) /\ ValidKind(p.kind)

\* a result dict that validation would accept
ValidResult(r) ==
    /\ ValidConfidence(r.confidence)
    /\ ValidSex(r.sex_chromosomes)
    /\ \A i \in 1..Len(r.abnormalities) : ValidKind(r.abnormalities[i].type)

\* the upstream call of this run answered 200 with findings validation rejects
InvalidFindingsReceived ==
    /\ response.outcome = "json"
    /\ response.status_code = 200
    /\ ~ValidPayload(response.payload)

C6_StoredResultNeverChanges ==
    [][(analysis_result # "None" /\ analysis_result' = analysis_result
        /\ analysis_result \in DOMAIN heap')
       => heap'[analysis_result] = heap[analysis_result]]_vars

\* C6 (amended; Spec): while the session keeps referring to the same result,
\* a step changes nothing of it but to add the key "interpretation": every
\* key it had keeps its value and no other key appears; and the steps that
\* render (display_results, generate_report, json.dumps) change nothing.
C6_OnlyInterpretationIsAdded ==
    [][(analysis_result # "None" /\ analysis_result' = analysis_result
        /\ analysis_result \in DOMAIN heap')
       => LET before == heap[analysis_result]
              after  == heap'[analysis_result]
          IN  /\ DOMAIN before \subseteq DOMAIN after
              /\ DOMAIN after \subseteq DOMAIN before \cup {"interpretation"}
              /\ \A k \in DOMAIN before : after[k] = before[k]
              /\ pc # "interpret" => after = before
              /\ pc = "interpret" =>
                     after.interpretation = generate_interpretation(before)]_vars

\* C6 witness: the stored result has got its interpretation after it was
\* stored, and the run is about to render it
C6_Witness ==
    /\ pc = "results"
    /\ clicked = "start"
    /\ analysis_result = result
    /\ analysis_result \in DOMAIN heap
    /\ DOMAIN heap[analysis_result] = FindingsKeys \cup {"interpretation"}

\* C7 (Spec): whenever analyze_with_api made the upstream call, whatever the
\* outcome, no exception left it, and the dict it returned has the seven
\* findings keys and is a dict of mock_analysis, for the fallback as for a
\* 200 response.
C7_AnalyzeAlwaysReturnsFindings ==
    response.outcome # "none" =>
        /\ raised = "none"
        /\ result \in DOMAIN heap
        /\ pc = "store" =>
               /\ DOMAIN heap[result] = FindingsKeys
               /\ heap[result] \in MockResults

\* C7 witness: analyze_with_api has returned findings after the upstream
\* call timed out
C7_Witness ==
    /\ pc = "store"
    /\ response.outcome = "timeout"
    /\ result \in DOMAIN heap
    /\ DOMAIN heap[result] = FindingsKeys

\* C9 (Spec): the session's analysis_result is None or refers to a live dict;
\* when the results and report sections are reached with a result stored,
\* the dict has every key the renderers read and each abnormality its
\* description; no run ends in a KeyError, and what a finished run shows was
\* rendered from a dict with its interpretation.
C9_RenderingNeverMissesAField ==
    /\ analysis_result # "None" => analysis_result \in DOMAIN heap
    /\ (pc = "results" /\ analysis_result # "None") =>
           Renderable(heap[analysis_result])
    /\ raised # "KeyError"
    /\ page.report # <<>> =>
           /\ analysis_result # "None"
           /\ page.results = display_results(heap[analysis_result]).written
           /\ page.results # <<>>

\* C9 witness: a session that analysed twice, the second result replacing the
\* first, has rendered the results and report sections for an abnormal result
C9_Witness ==
    /\ pc = "idle"
    /\ analysis_result = "dict_b"
    /\ page.report # <<>>
    /\ page.results # <<>>
    /\ Len(heap[analysis_result].abnormalities) > 0

\* the file in the uploader is over the limit
Oversize == uploaded_file # "None" /\ FileSize(uploaded_file) > MaxUploadBytes

\* C10 (Spec): the run that finds an oversize file in the uploader changes
\* neither uploaded_image nor analysis_result in display_upload_section,
\* which returns None; the analysis section is not shown in that run and no
\* analysis starts; a file of exactly 10 * 1024 * 1024 bytes is accepted.
C10_OversizeUploadRejected ==
    [][/\ (pc = "upload" /\ Oversize) =>
              /\ image' = "None"
              /\ uploaded_image' = uploaded_image
              /\ analysis_result' = analysis_result
              /\ heap' = heap
              /\ pc' = "analysis"
       /\ (pc' # "upload" /\ Oversize') =>
              /\ image' = "None"
              /\ "start" \notin offered'
              /\ pc' \notin {"store", "interpret"}
              /\ response' = NoResponse
       /\ (pc = "upload" /\ uploaded_file = "exact10mb.png") =>
              /\ FileSize(uploaded_file) = 10 * 1024 * 1024
              /\ image' = uploaded_file
              /\ uploaded_image' = uploaded_file
              /\ pc' = "analysis"]_vars

\* C10 witness: display_upload_section has rejected an oversize file in a
\* session that holds an image and a result from before
C10_Witness ==
    /\ pc = "analysis"
    /\ Oversize
    /\ image = "None"
    /\ uploaded_image # "None"
    /\ analysis_result # "None"

\* the document has the line
HasLine(lines, l) == \E i \in 1..Len(lines) : lines[i] = l

\* some line of the document contains the text
Discoverable(lines, t) == \E i \in 1..Len(lines) : Contains(lines[i], t)

StartsWith(s, t) == Len(s) >= Len(t) /\ SubSeq(s, 1, Len(t)) = t

\* s without the comma that ends it, if one does
WithoutComma(s) ==
    IF Len(s) > 0 /\ SubSeq(s, Len(s), Len(s)) = "," THEN SubSeq(s, 1, Len(s) - 1) ELSE s

\* a JSON string literal without its quotes; any other literal as it is
Unquoted(s) ==
    IF Len(s) >= 2 /\ SubSeq(s, 1, 1) = "\"" THEN SubSeq(s, 2, Len(s) - 1) ELSE s

\* the values the export's members of the given indent and key have, read
\* back from its lines
JsonValues(lines, indent, key) ==
    LET prefix == indent \o "\"" \o key \o "\": "
    IN  {Unquoted(WithoutComma(SubSeq(lines[i], Len(prefix) + 1, Len(lines[i])))) :
            i \in {j \in 1..Len(lines) : StartsWith(lines[j], prefix)}}

\* the top-level members of the export whose value the text document writes
\* on a line of its own, and what the text document puts before the value
TextLabel(key) ==
    CASE key = "notation"         -> "ISCN 2020 Notation: "
      [] key = "chromosome_count" -> "Chromosome Count: "
      [] key = "sex_chromosomes"  -> "Sex Chromosomes: "
      [] key = "analysis_time"    -> "Analysis Date: "
      [] key = "technical_notes"  -> ""
      [] key = "interpretation"   -> ""

VerbatimKeys ==
    {"notation", "chromosome_count", "sex_chromosomes", "analysis_time",
     "technical_notes", "interpretation"}

\* the lines of the text document that are the same for every result
FixedReportLines ==
    {"",
     "CHROMOSOME KARYOTYPE ANALYSIS REPORT",
     "====================================",
     "SUMMARY",
     "-------",
     "DETECTED ABNORMALITIES",
     "---------------------",
     "CLINICAL INTERPRETATION",
     "----------------------",
     "TECHNICAL NOTES",
     "--------------",
     "DISCLAIMER",
     "----------",
     "This analysis is for educational and research purposes only. ",
     "Results must be validated by qualified cytogenetics professionals.",
     "Do not use for clinical diagnosis or medical decision-making.",
     "Generated by Chromosome Karyotype Analyzer",
     "Powered by EXAONE-Path-2.0 AI Model"}

\* C8 (as claimed; SpecPure): every value of the structured export is
\* discoverable - contained in some line - in the text document: the
\* top-level fields, the confidence as exported, and each event's type,
\* chromosome and description.
C8_EveryExportedValueInText ==
    fn_ret.stage = "dumped" =>
        /\ \A k \in VerbatimKeys \cup {"confidence"} :
               \A v \in JsonValues(fn_ret.json, "  ", k) : Discoverable(fn_ret.text, v)
        /\ \A k \in {"type", "chromosome", "description"} :
               \A v \in JsonValues(fn_ret.json, "      ", k) : Discoverable(fn_ret.text, v)

\* C8 (amended; SpecPure): the export has all eight top-level members and,
\* per event, its type, chromosome (when it has one) and description.  Read
\* back from the export, the notation, chromosome_count, sex_chromosomes,
\* analysis_time, technical_notes and interpretation each stand on a line of
\* the text document, after its label, and each event's description on its
\* numbered line; the confidence is exported in full and written to the text
\* rounded to one decimal.  The text document has no line for an event's type
\* or chromosome.  Every line of the text document that depends on the result
\* is one of these.
C8_TextCarriesExportExceptEventKind ==
    fn_ret.stage = "dumped" =>
        /\ fn_ret.raised = "none"
        /\ \A k \in VerbatimKeys :
               /\ JsonValues(fn_ret.json, "  ", k) =
                      {IF k = "interpretation" THEN fn_ret.interpretation
                       ELSE IF k = "chromosome_count" THEN ToString(fn_arg[k])
                       ELSE fn_arg[k]}
               /\ \A v \in JsonValues(fn_ret.json, "  ", k) :
                      HasLine(fn_ret.text, TextLabel(k) \o v)
        /\ JsonValues(fn_ret.json, "  ", "confidence") = {FloatRepr(fn_arg.confidence)}
        /\ HasLine(fn_ret.text,
                   "Confidence Score: " \o Format1f(fn_arg.confidence) \o "%")
        /\ JsonValues(fn_ret.json, "      ", "description") =
               {fn_arg.abnormalities[i].description : i \in 1..Len(fn_arg.abnormalities)}
        /\ JsonValues(fn_ret.json, "      ", "type") =
               {fn_arg.abnormalities[i].type : i \in 1..Len(fn_arg.abnormalities)}
        /\ \A i \in 1..Len(fn_arg.abnormalities) :
               HasLine(fn_ret.text,
                       ToString(i) \o ". " \o fn_arg.abnormalities[i].description)
        /\ fn_arg.abnormalities = <<>> =>
               /\ HasLine(fn_ret.text, "No chromosomal abnormalities detected.")
               /\ HasLine(fn_ret.json, "  \"abnormalities\": [],")
        /\ \A i \in 1..Len(fn_ret.text) :
               \/ fn_ret.text[i] \in FixedReportLines
               \/ /\ fn_arg.abnormalities = <<>>
                  /\ fn_ret.text[i] = "No chromosomal abnormalities detected."
               \/ \E k \in VerbatimKeys : \E v \in JsonValues(fn_ret.json, "  ", k) :
                      fn_ret.text[i] = TextLabel(k) \o v
               \/ \E v \in JsonValues(fn_ret.json, "      ", "description") :
                      \E n \in 1..Len(fn_arg.abnormalities) :
                          fn_ret.text[i] = ToString(n) \o ". " \o v
               \/ fn_ret.text[i] =
                      "Confidence Score: " \o Format1f(fn_arg.confidence) \o "%"

\* C8 witness: both documents were produced for a result with two events and
\* a confidence that has a second decimal
C8_Witness ==
    /\ fn_ret.stage = "dumped"
    /\ Len(fn_arg.abnormalities) = 2
    /\ fn_arg.confidence = 8734
    /\ Len(fn_ret.text) > 0
    /\ Len(fn_ret.json) > 0

====
